---- MODULE Spec2Model ----
(***************************************************************************)
(* Model of the MD2 loader / player (Md2.hpp, Md2.cpp).                    *)
(*                                                                         *)
(* The frame cursor mActiveFrame is a float in the source.  It is modelled *)
(* in fixed point: an integer number of ticks, TicksPerFrame ticks to one  *)
(* frame, so that its integer part is (ticks \div TicksPerFrame) and its   *)
(* fractional part is (ticks % TicksPerFrame).  Elapsed time dt is counted *)
(* in ticks of 1/TicksPerFrame second, which makes mSpeed*dt*fps a whole   *)
(* number of cursor ticks.                                                 *)
(***************************************************************************)
EXTENDS Integers, Sequences, FiniteSets, TLC

\* ------------------------------------------------------------------------
\* Bounds of the model
\* ------------------------------------------------------------------------
TicksPerFrame == 2
MaxDt == 3
LargeDt == 1000
MaxFaults == 3

\* ------------------------------------------------------------------------
\* Md2::AnimationName and Md2::sAnimations
\* ------------------------------------------------------------------------
ANIMATION_STAND == 0
ANIMATION_BOOM == 20

sAnimations ==
  << [start |->   0, end |->  39, fps |->  9],
     [start |->  40, end |->  45, fps |-> 10],
     [start |->  46, end |->  53, fps |-> 10],
     [start |->  54, end |->  57, fps |->  7],
     [start |->  58, end |->  61, fps |->  7],
     [start |->  62, end |->  65, fps |->  7],
     [start |->  66, end |->  71, fps |->  7],
     [start |->  72, end |->  83, fps |->  7],
     [start |->  84, end |->  94, fps |->  7],
     [start |->  95, end |-> 111, fps |-> 10],
     [start |-> 112, end |-> 122, fps |->  7],
     [start |-> 123, end |-> 134, fps |->  6],
     [start |-> 135, end |-> 153, fps |-> 10],
     [start |-> 154, end |-> 159, fps |->  7],
     [start |-> 160, end |-> 168, fps |-> 10],
     [start |-> 169, end |-> 172, fps |->  7],
     [start |-> 173, end |-> 177, fps |->  5],
     [start |-> 178, end |-> 183, fps |->  7],
     [start |-> 184, end |-> 189, fps |->  7],
     [start |-> 190, end |-> 197, fps |->  7],
     [start |-> 198, end |-> 198, fps |->  5] >>

\* sAnimations[i] of the source, i counted from 0
Anim(i) == sAnimations[i + 1]

FrameCount_wide(a) == a.end - a.start + 2

\* Md2::_Animation::FrameCount
FrameCount(a) == a.end - a.start + 1

\* ------------------------------------------------------------------------
\* Fixed-width integers
\* ------------------------------------------------------------------------
\* conversion of an int32_t to an int16_t member (two's complement)
Int16(x) == ((x + 32768) % 65536) - 32768

\* ------------------------------------------------------------------------
\* File header
\* ------------------------------------------------------------------------
\* the int32_t read from four consecutive bytes of the file (little endian)
Pack(b) == b[1] + b[2] * 256 + b[3] * 65536 + b[4] * 16777216

\* 'I'|'D'<<8|'P'<<16|'2'<<24
Md2Ident == Pack(<<73, 68, 80, 50>>)

\* version the loader accepts
Md2Version == 8

\* frame count the loader accepts
Md2FrameCnt == 198

IdentBytes == { <<73, 68, 80, 50>>,      \* "IDP2"
                <<50, 80, 68, 73>>,      \* "2PDI"
                <<73, 68, 80, 51>> }     \* "IDP3"
VersionValues == {7, 8}
SkinCntValues == {-1, 1}
TexCoordCntValues == {0, 3}
TriangleCntValues == {0, 1, -65535, 65536}
FrameCntValues == {0, 198, 199, 65734}
VertexCntValues == {0, 3, -65535, 65536}
SkinSizeValues == {256}

\* the contents of a _Md2Header (the fields Load reads)
AllHeaders ==
  [ ident : {Pack(b) : b \in IdentBytes},
    version : VersionValues,
    skinWidth : SkinSizeValues, skinHeight : SkinSizeValues,
    skinCnt : SkinCntValues, vertexCnt : VertexCntValues,
    texCoordCnt : TexCoordCntValues, triangleCnt : TriangleCntValues,
    frameCnt : FrameCntValues ]

\* the header of a file Load accepts
GoodHeader ==
  [ ident |-> Pack(<<73, 68, 80, 50>>), version |-> 8,
    skinWidth |-> 256, skinHeight |-> 256,
    skinCnt |-> 1, vertexCnt |-> 3, texCoordCnt |-> 3, triangleCnt |-> 1,
    frameCnt |-> 198 ]

\* the headers tried: the accepted header with up to MaxFaults fields replaced
Headers ==
  { h \in AllHeaders :
      Cardinality({f \in DOMAIN GoodHeader : h[f] # GoodHeader[f]}) <= MaxFaults }

NoHeader ==
  [ ident |-> 0, version |-> 0, skinWidth |-> 0, skinHeight |-> 0,
    skinCnt |-> 0, vertexCnt |-> 0, texCoordCnt |-> 0, triangleCnt |-> 0,
    frameCnt |-> 0 ]

\* ------------------------------------------------------------------------
\* State
\* ------------------------------------------------------------------------
VARIABLES
  mSkins, mTexCoords, mTriangles, mFrames,   \* TRUE: array allocated, FALSE: NULL
  frameVertices,       \* "none", "uninit" or "alloc": the vertices pointers of mFrames
  mData,               \* the file contents the allocated arrays were read from, or "none"
  mSkinCnt, mTexCoordCnt, mTriangleCnt, mFrameCnt, mVertexCnt,
  mSkinWidth, mSkinHeight,
  mActiveAnimation, mActiveFrame, mSpeed, mIsPlaying,
  loadResult,          \* outcome of the last Load: "None", "Ok" or the exception thrown
  stream,              \* the file given to the last Load: "none", "missing", "short", "ok"
  header,              \* the _Md2Header of the last Load after the read
  lastOp, prevOp,      \* the last operation called, and the one before it
  anim1, anim2,        \* mActiveAnimation before the last operation, the last two
  lastDt,              \* the dt of the last operation when it is an Update, else 0
  wasLoaded,           \* TRUE when the object held a loaded model before the
                       \* last operation
  genCall,             \* what the last operation read and wrote when it is a
                       \* GenVertices, else NoGen
  live,                \* the arrays allocated and not released: <<kind, age>>,
                       \* age "new" (from the last Load) or "old" (from before)
  streamOffset,        \* on_update's static streamOffset, in bytes
  drawOffset,          \* on_update's static drawOffset, in vertices
  mapped,              \* the ranges <<offset, size>> mapped for writing since
                       \* the stream buffer was last orphaned
  overlapped,          \* TRUE when a range mapped since the last orphaning
                       \* overlaps a range mapped before it
  lastRange,           \* the range mapped by the last on_update that streamed
  orphaned,            \* TRUE when the last operation is an on_update that
                       \* orphaned the buffer
  drawn,               \* the bytes <<first, size>> read by the last draw call
  invalidRelease       \* the kinds of array the last _Clear passed to delete[]
                       \* without a live array behind the pointer; what the
                       \* program does from then on is undefined

modelVars == << mSkins, mTexCoords, mTriangles, mFrames, frameVertices, mData,
                mSkinCnt, mTexCoordCnt, mTriangleCnt, mFrameCnt, mVertexCnt,
                mSkinWidth, mSkinHeight >>
playVars == << mActiveAnimation, mActiveFrame, mSpeed, mIsPlaying >>
loadVars == << loadResult, stream, header >>
histVars == << lastOp, prevOp, anim1, anim2, lastDt, wasLoaded, genCall >>
heapVars == << live, invalidRelease >>
streamVars == << streamOffset, drawOffset, mapped, overlapped, lastRange,
                 orphaned, drawn >>
vars == << modelVars, playVars, loadVars, histVars, heapVars, streamVars >>

NoGen == [ fault |-> FALSE, triangleCnt |-> 0 ]

\* Md2::Md2()
Init ==
  /\ mSkins = FALSE /\ mTexCoords = FALSE /\ mTriangles = FALSE /\ mFrames = FALSE
  /\ frameVertices = "none" /\ mData = "none"
  /\ mSkinCnt = -1 /\ mTexCoordCnt = -1 /\ mTriangleCnt = -1 /\ mFrameCnt = -1
  /\ mVertexCnt = -1 /\ mSkinWidth = -1 /\ mSkinHeight = -1
  /\ mActiveAnimation = 0 /\ mActiveFrame = 0
  /\ mSpeed = 1 /\ mIsPlaying = TRUE
  /\ loadResult = "None" /\ stream = "none" /\ header = NoHeader
  /\ lastOp = "None" /\ prevOp = "None" /\ anim1 = 0 /\ anim2 = 0 /\ lastDt = 0
  /\ genCall = NoGen
  /\ wasLoaded = FALSE
  /\ live = {} /\ invalidRelease = {}
  /\ streamOffset = 0 /\ drawOffset = 0
  /\ mapped = {} /\ overlapped = FALSE /\ lastRange = <<0, 0>>
  /\ orphaned = FALSE /\ drawn = <<0, 0>>

\* Accessors
SkinCount == mSkinCnt
TexCoordCount == mTexCoordCnt
TriangleCount == mTriangleCnt
FrameCountOfModel == mFrameCnt
VertexCount == mVertexCnt
IsPlaying == mIsPlaying

\* bookkeeping of the call history
History(op, dt) ==
  /\ lastOp' = op
  /\ prevOp' = lastOp
  /\ anim1' = mActiveAnimation
  /\ anim2' = anim1
  /\ lastDt' = dt
  /\ wasLoaded' = (loadResult = "Ok")

\* bookkeeping of a call other than GenVertices, Load and the destructor
Called(op, dt) ==
  /\ History(op, dt)
  /\ genCall' = NoGen
  /\ UNCHANGED << heapVars, streamVars >>

\* ------------------------------------------------------------------------
\* Md2::_Clear and Md2::Load
\* ------------------------------------------------------------------------
\* the members after Md2::_Clear
Cleared ==
  [ skins |-> FALSE, texCoords |-> FALSE, triangles |-> FALSE, frames |-> FALSE,
    vertices |-> "none",
    skinCnt |-> -1, texCoordCnt |-> -1, triangleCnt |-> -1, frameCnt |-> -1,
    vertexCnt |-> -1, skinWidth |-> -1, skinHeight |-> -1 ]

\* the arrays, of the given age, that the members point to
Owned(age) ==
  (IF mSkins THEN {<<"skins", age>>} ELSE {})
    \cup (IF mTexCoords THEN {<<"texCoords", age>>} ELSE {})
    \cup (IF mTriangles THEN {<<"triangles", age>>} ELSE {})
    \cup (IF mFrames THEN {<<"frames", age>>} ELSE {})
    \cup (IF mFrames /\ frameVertices = "alloc" THEN {<<"vertices", age>>} ELSE {})

ClearReleases_keepFrames(age) ==
  { b \in Owned(age) : b[1] \notin {"frames", "vertices"} }

\* the arrays the delete[] expressions of _Clear release; delete[] mFrames
\* runs ~_Frame on every frame, which releases its vertices
ClearReleases(age) == Owned(age)

\* the kinds of array _Clear passes to delete[] with no live array behind the
\* pointer: the vertices pointers of frames allocated by new _Frame[n] and
\* never assigned, and any array already released
ClearInvalid(age, heap) ==
  (IF mFrames /\ frameVertices = "uninit" THEN {"vertices"} ELSE {})
    \cup { b[1] : b \in ClearReleases(age) \ heap }

\* the arrays a Load that reached the members m has allocated
Allocated(m) ==
  (IF m.skins THEN {<<"skins", "new">>} ELSE {})
    \cup (IF m.texCoords THEN {<<"texCoords", "new">>} ELSE {})
    \cup (IF m.triangles THEN {<<"triangles", "new">>} ELSE {})
    \cup (IF m.frames THEN {<<"frames", "new">>} ELSE {})
    \cup (IF m.vertices = "alloc" THEN {<<"vertices", "new">>} ELSE {})

\* every array allocated before the current Load is "old"
Aged(heap) == { <<b[1], "old">> : b \in heap }

PlaybackAfterLoad_reset ==
  /\ mActiveAnimation' = 0 /\ mActiveFrame' = 0
  /\ UNCHANGED << mSpeed, mIsPlaying >>

\* Load and _Clear assign none of the playback members
PlaybackAfterLoad == UNCHANGED playVars

\* the members after "save information": the header's counts and dimensions
\* converted to the int16_t members
Saved(h) ==
  [ Cleared EXCEPT !.skinCnt = Int16(h.skinCnt),
                   !.texCoordCnt = Int16(h.texCoordCnt),
                   !.triangleCnt = Int16(h.triangleCnt),
                   !.frameCnt = Int16(h.frameCnt),
                   !.vertexCnt = Int16(h.vertexCnt),
                   !.skinWidth = Int16(h.skinWidth),
                   !.skinHeight = Int16(h.skinHeight) ]

\* the members after the skin and texcoord arrays were allocated and read
WithSkins(m) ==
  [ m EXCEPT !.skins = (0 < m.skinCnt), !.texCoords = (0 < m.texCoordCnt) ]

IdentOk_be(h) == h.ident = 50 + 80 * 256 + 68 * 65536 + 73 * 16777216

\* header.ident == ('I'|'D'<<8|'P'<<16|'2'<<24)
IdentOk(h) == h.ident = Md2Ident

VersionOk_upto(h) == h.version <= Md2Version

\* header.version == 8
VersionOk(h) == h.version = Md2Version

\* 0 < mTriangleCnt
TriangleOk(m) == 0 < m.triangleCnt

FrameOk_table(m) == m.frameCnt = 199

\* 198 == mFrameCnt
FrameOk(m) == m.frameCnt = Md2FrameCnt

\* 0 < mVertexCnt
VertexOk(m) == 0 < m.vertexCnt

\* Md2::Load after _Clear: the exception thrown ("Ok" when none) and the
\* members left behind, for a file in state s ("missing": cannot be opened)
\* whose header memory holds h after the read
LoadOutcome(s, h) ==
  LET m1 == WithSkins(Saved(h))
      m2 == [m1 EXCEPT !.triangles = TRUE]
      m3 == [m2 EXCEPT !.frames = TRUE, !.vertices = "uninit"]
      m4 == [m3 EXCEPT !.vertices = "alloc"]
  IN  IF s = "missing" THEN [result |-> "NotFound", m |-> Cleared]
      ELSE IF ~IdentOk(h) THEN [result |-> "BadIdent", m |-> Cleared]
      ELSE IF ~VersionOk(h) THEN [result |-> "BadVersion", m |-> Cleared]
      ELSE IF ~TriangleOk(m1) THEN [result |-> "BadTriangleData", m |-> m1]
      ELSE IF ~FrameOk(m2) THEN [result |-> "BadFrameData", m |-> m2]
      ELSE IF ~VertexOk(m3) THEN [result |-> "BadVertexData", m |-> m3]
      ELSE [result |-> "Ok", m |-> m4]

\* Md2::Load(filename) of a file whose data sections hold the contents d.
\* A file that cannot be opened leaves no header; a file shorter than the
\* header leaves the header memory, and the arrays read after it,
\* uninitialised, so that any contents may be found there.
LoadData(s, h, d) ==
  LET o == LoadOutcome(s, h) IN
  /\ mSkins' = o.m.skins /\ mTexCoords' = o.m.texCoords
  /\ mTriangles' = o.m.triangles /\ mFrames' = o.m.frames
  /\ frameVertices' = o.m.vertices
  /\ mData' = IF o.result \in {"NotFound", "BadIdent", "BadVersion"} THEN "none"
              ELSE IF s = "short" THEN "uninit"
              ELSE d
  /\ mSkinCnt' = o.m.skinCnt /\ mTexCoordCnt' = o.m.texCoordCnt
  /\ mTriangleCnt' = o.m.triangleCnt /\ mFrameCnt' = o.m.frameCnt
  /\ mVertexCnt' = o.m.vertexCnt
  /\ mSkinWidth' = o.m.skinWidth /\ mSkinHeight' = o.m.skinHeight
  /\ loadResult' = o.result
  /\ stream' = s
  /\ header' = h
  /\ History("Load", 0)
  /\ genCall' = NoGen
  /\ live' = (Aged(live) \ ClearReleases("old")) \cup Allocated(o.m)
  /\ invalidRelease' = ClearInvalid("old", Aged(live))
  /\ PlaybackAfterLoad
  /\ UNCHANGED streamVars

\* Md2::~Md2: _Clear on the object as the last Load left it
Destroy ==
  /\ mSkins' = Cleared.skins /\ mTexCoords' = Cleared.texCoords
  /\ mTriangles' = Cleared.triangles /\ mFrames' = Cleared.frames
  /\ frameVertices' = Cleared.vertices
  /\ mData' = "none"
  /\ mSkinCnt' = Cleared.skinCnt /\ mTexCoordCnt' = Cleared.texCoordCnt
  /\ mTriangleCnt' = Cleared.triangleCnt /\ mFrameCnt' = Cleared.frameCnt
  /\ mVertexCnt' = Cleared.vertexCnt
  /\ mSkinWidth' = Cleared.skinWidth /\ mSkinHeight' = Cleared.skinHeight
  /\ History("~Md2", 0)
  /\ genCall' = NoGen
  /\ live' = live \ ClearReleases("new")
  /\ invalidRelease' = ClearInvalid("new", live)
  /\ UNCHANGED << playVars, loadVars, streamVars >>

\* Md2::Load of a file whose data sections hold the "unit" contents
Load(s, h) == LoadData(s, h, "unit")

LoadMissing == Load("missing", NoHeader)
LoadShort == \E h \in Headers : Load("short", h)
LoadFile == \E h \in Headers : Load("ok", h)

\* ------------------------------------------------------------------------
\* Playback
\* ------------------------------------------------------------------------
\* Md2::Play
Play ==
  /\ mIsPlaying' = TRUE
  /\ Called("Play", 0)
  /\ UNCHANGED << modelVars, loadVars, mActiveAnimation, mActiveFrame, mSpeed >>

Pause_asPlay ==
  /\ mIsPlaying' = TRUE
  /\ Called("Pause", 0)
  /\ UNCHANGED << modelVars, loadVars, mActiveAnimation, mActiveFrame, mSpeed >>

\* Md2::Pause
Pause ==
  /\ mIsPlaying' = FALSE
  /\ Called("Pause", 0)
  /\ UNCHANGED << modelVars, loadVars, mActiveAnimation, mActiveFrame, mSpeed >>

NextIndex_table(a) == IF a + 1 > ANIMATION_BOOM THEN ANIMATION_STAND ELSE a + 1

\* ++mActiveAnimation; if(mActiveAnimation >= ANIMATION_BOOM) ... = ANIMATION_STAND
NextIndex(a) == IF a + 1 >= ANIMATION_BOOM THEN ANIMATION_STAND ELSE a + 1

PreviousIndex_table(a) == IF a - 1 = -1 THEN a - 1 + ANIMATION_BOOM + 1 ELSE a - 1

\* --mActiveAnimation; if(mActiveAnimation == -1) mActiveAnimation += ANIMATION_BOOM
PreviousIndex(a) == IF a - 1 = -1 THEN a - 1 + ANIMATION_BOOM ELSE a - 1

StartTicks_off(a) == (Anim(a).start + 1) * TicksPerFrame

\* the float value of sAnimations[a].start, in ticks
StartTicks(a) == Anim(a).start * TicksPerFrame

NextAnimation_keepsCursor ==
  /\ mActiveAnimation' = NextIndex(mActiveAnimation)
  /\ Called("NextAnimation", 0)
  /\ UNCHANGED << modelVars, loadVars, mActiveFrame, mSpeed, mIsPlaying >>

\* Md2::NextAnimation
NextAnimation ==
  /\ mActiveAnimation' = NextIndex(mActiveAnimation)
  /\ mActiveFrame' = StartTicks(mActiveAnimation')
  /\ Called("NextAnimation", 0)
  /\ UNCHANGED << modelVars, loadVars, mSpeed, mIsPlaying >>

\* Md2::PreviousAnimation
PreviousAnimation ==
  /\ mActiveAnimation' = PreviousIndex(mActiveAnimation)
  /\ mActiveFrame' = StartTicks(mActiveAnimation')
  /\ Called("PreviousAnimation", 0)
  /\ UNCHANGED << modelVars, loadVars, mSpeed, mIsPlaying >>

\* mActiveFrame + mSpeed*dt*fps
Advanced(c, speed, dt, a) == c + speed * dt * a.fps

\* mActiveFrame >= sAnimations[mActiveAnimation].end
MustWrap(c, a) == c >= a.end * TicksPerFrame

\* the wrap expression when modf has stored the integer part in mActiveFrame
\* before the argument of fmod reads it
WrapModfFirst(c, a) ==
  LET whole == c \div TicksPerFrame
      frac == c % TicksPerFrame
  IN  frac + ((whole - a.start) % FrameCount(a)) * TicksPerFrame
           + a.start * TicksPerFrame

\* the wrap expression when the argument of fmod reads mActiveFrame before
\* modf overwrites it
WrapFmodFirst(c, a) ==
  LET frac == c % TicksPerFrame
  IN  frac + ((c - a.start * TicksPerFrame) % (FrameCount(a) * TicksPerFrame))
           + a.start * TicksPerFrame

\* the dt arguments, in ticks
DtValues == (0 .. MaxDt) \cup {LargeDt}

Paused_never(playing) == FALSE

\* if(!mIsPlaying) return;
Paused(playing) == ~playing

\* Md2::Update(dt) while paused
UpdatePaused(dt) ==
  /\ Paused(mIsPlaying)
  /\ Called("Update", dt)
  /\ UNCHANGED << modelVars, loadVars, playVars >>

\* Md2::Update(dt) while playing, the cursor staying below the end frame
UpdateAdvance(dt) ==
  LET a == Anim(mActiveAnimation)
      c == Advanced(mActiveFrame, mSpeed, dt, a)
  IN  /\ ~Paused(mIsPlaying)
      /\ ~MustWrap(c, a)
      /\ mActiveFrame' = c
      /\ Called("Update", dt)
      /\ UNCHANGED << modelVars, loadVars, mActiveAnimation, mSpeed, mIsPlaying >>

\* Md2::Update(dt) while playing, the cursor wrapped; the two operands of
\* the sum are evaluated in either order
UpdateWrap(dt) ==
  LET a == Anim(mActiveAnimation)
      c == Advanced(mActiveFrame, mSpeed, dt, a)
  IN  /\ ~Paused(mIsPlaying)
      /\ MustWrap(c, a)
      /\ \/ mActiveFrame' = WrapModfFirst(c, a)
         \/ mActiveFrame' = WrapFmodFirst(c, a)
      /\ Called("Update", dt)
      /\ UNCHANGED << modelVars, loadVars, mActiveAnimation, mSpeed, mIsPlaying >>

Update == \E dt \in DtValues : UpdatePaused(dt) \/ UpdateAdvance(dt) \/ UpdateWrap(dt)

\* ------------------------------------------------------------------------
\* File contents: triangles, texcoords and frames
\* ------------------------------------------------------------------------
\* the contents of the data sections of the files loaded
DataValues == {"unit", "scaled"}

\* _Triangle i of a file with vcnt vertices and tcnt texcoords
TriangleData(i, vcnt, tcnt) ==
  [ iPos |-> [j \in 0 .. 2 |-> (i + j) % vcnt],
    iSt |-> [j \in 0 .. 2 |-> (i + 2 * j) % tcnt] ]

\* _TexCoord k
TexCoordData(k) == [ s |-> (k * 40) % 256, t |-> (k * 90 + 10) % 256 ]

\* _Frame::scale of frame f
FrameScale(d, f) == IF d = "unit" THEN <<1, 1, 1>> ELSE <<2, 3, 1 + (f % 3)>>

\* _Frame::translation of frame f
FrameTranslation(d, f) == IF d = "unit" THEN <<0, 0, 0>> ELSE <<-5, f % 4, 7>>

\* _Frame::Vertex v of frame f
FrameVertexData(f, v) ==
  [ x |-> (f * 7 + v * 3) % 256, y |-> (f + v * 11 + 1) % 256,
    z |-> (f * 5 + v) % 256, n |-> (f + v) % 162 ]

\* Md2::sNormals, in millionths
sNormals ==
  <<
     <<-525731, 0, 850651>>, <<-442863, 238856, 864188>>, <<-295242, 0, 955423>>,
     <<-309017, 500000, 809017>>, <<-162460, 262866, 951056>>, <<0, 0, 1000000>>,
     <<0, 850651, 525731>>, <<-147621, 716567, 681718>>, <<147621, 716567, 681718>>,
     <<0, 525731, 850651>>, <<309017, 500000, 809017>>, <<525731, 0, 850651>>,
     <<295242, 0, 955423>>, <<442863, 238856, 864188>>, <<162460, 262866, 951056>>,
     <<-681718, 147621, 716567>>, <<-809017, 309017, 500000>>, <<-587785, 425325, 688191>>,
     <<-850651, 525731, 0>>, <<-864188, 442863, 238856>>, <<-716567, 681718, 147621>>,
     <<-688191, 587785, 425325>>, <<-500000, 809017, 309017>>, <<-238856, 864188, 442863>>,
     <<-425325, 688191, 587785>>, <<-716567, 681718, -147621>>, <<-500000, 809017, -309017>>,
     <<-525731, 850651, 0>>, <<0, 850651, -525731>>, <<-238856, 864188, -442863>>,
     <<0, 955423, -295242>>, <<-262866, 951056, -162460>>, <<0, 1000000, 0>>,
     <<0, 955423, 295242>>, <<-262866, 951056, 162460>>, <<238856, 864188, 442863>>,
     <<262866, 951056, 162460>>, <<500000, 809017, 309017>>, <<238856, 864188, -442863>>,
     <<262866, 951056, -162460>>, <<500000, 809017, -309017>>, <<850651, 525731, 0>>,
     <<716567, 681718, 147621>>, <<716567, 681718, -147621>>, <<525731, 850651, 0>>,
     <<425325, 688191, 587785>>, <<864188, 442863, 238856>>, <<688191, 587785, 425325>>,
     <<809017, 309017, 500000>>, <<681718, 147621, 716567>>, <<587785, 425325, 688191>>,
     <<955423, 295242, 0>>, <<1000000, 0, 0>>, <<951056, 162460, 262866>>,
     <<850651, -525731, 0>>, <<955423, -295242, 0>>, <<864188, -442863, 238856>>,
     <<951056, -162460, 262866>>, <<809017, -309017, 500000>>, <<681718, -147621, 716567>>,
     <<850651, 0, 525731>>, <<864188, 442863, -238856>>, <<809017, 309017, -500000>>,
     <<951056, 162460, -262866>>, <<525731, 0, -850651>>, <<681718, 147621, -716567>>,
     <<681718, -147621, -716567>>, <<850651, 0, -525731>>, <<809017, -309017, -500000>>,
     <<864188, -442863, -238856>>, <<951056, -162460, -262866>>, <<147621, 716567, -681718>>,
     <<309017, 500000, -809017>>, <<425325, 688191, -587785>>, <<442863, 238856, -864188>>,
     <<587785, 425325, -688191>>, <<688191, 587785, -425325>>, <<-147621, 716567, -681718>>,
     <<-309017, 500000, -809017>>, <<0, 525731, -850651>>, <<-525731, 0, -850651>>,
     <<-442863, 238856, -864188>>, <<-295242, 0, -955423>>, <<-162460, 262866, -951056>>,
     <<0, 0, -1000000>>, <<295242, 0, -955423>>, <<162460, 262866, -951056>>,
     <<-442863, -238856, -864188>>, <<-309017, -500000, -809017>>, <<-162460, -262866, -951056>>,
     <<0, -850651, -525731>>, <<-147621, -716567, -681718>>, <<147621, -716567, -681718>>,
     <<0, -525731, -850651>>, <<309017, -500000, -809017>>, <<442863, -238856, -864188>>,
     <<162460, -262866, -951056>>, <<238856, -864188, -442863>>, <<500000, -809017, -309017>>,
     <<425325, -688191, -587785>>, <<716567, -681718, -147621>>, <<688191, -587785, -425325>>,
     <<587785, -425325, -688191>>, <<0, -955423, -295242>>, <<0, -1000000, 0>>,
     <<262866, -951056, -162460>>, <<0, -850651, 525731>>, <<0, -955423, 295242>>,
     <<238856, -864188, 442863>>, <<262866, -951056, 162460>>, <<500000, -809017, 309017>>,
     <<716567, -681718, 147621>>, <<525731, -850651, 0>>, <<-238856, -864188, -442863>>,
     <<-500000, -809017, -309017>>, <<-262866, -951056, -162460>>, <<-850651, -525731, 0>>,
     <<-716567, -681718, -147621>>, <<-716567, -681718, 147621>>, <<-525731, -850651, 0>>,
     <<-500000, -809017, 309017>>, <<-238856, -864188, 442863>>, <<-262866, -951056, 162460>>,
     <<-864188, -442863, 238856>>, <<-809017, -309017, 500000>>, <<-688191, -587785, 425325>>,
     <<-681718, -147621, 716567>>, <<-442863, -238856, 864188>>, <<-587785, -425325, 688191>>,
     <<-309017, -500000, 809017>>, <<-147621, -716567, 681718>>, <<-425325, -688191, 587785>>,
     <<-162460, -262866, 951056>>, <<442863, -238856, 864188>>, <<162460, -262866, 951056>>,
     <<309017, -500000, 809017>>, <<147621, -716567, 681718>>, <<0, -525731, 850651>>,
     <<425325, -688191, 587785>>, <<587785, -425325, 688191>>, <<688191, -587785, 425325>>,
     <<-955423, 295242, 0>>, <<-951056, 162460, 262866>>, <<-1000000, 0, 0>>,
     <<-850651, 0, 525731>>, <<-955423, -295242, 0>>, <<-951056, -162460, 262866>>,
     <<-864188, 442863, -238856>>, <<-951056, 162460, -262866>>, <<-809017, 309017, -500000>>,
     <<-864188, -442863, -238856>>, <<-951056, -162460, -262866>>, <<-809017, -309017, -500000>>,
     <<-681718, 147621, -716567>>, <<-681718, -147621, -716567>>, <<-850651, 0, -525731>>,
     <<-688191, 587785, -425325>>, <<-587785, 425325, -688191>>, <<-425325, 688191, -587785>>,
     <<-425325, -688191, -587785>>, <<-587785, -425325, -688191>>, <<-688191, -587785, -425325>>
  >>

\* ------------------------------------------------------------------------
\* Md2::GenVertices
\* ------------------------------------------------------------------------
\* lerp = std::modf(mActiveFrame, ...), in ticks
Lerp(c) == c % TicksPerFrame

\* activeFrameIdx = static_cast<int16_t>(mActiveFrame)
ActiveFrameIdx(c) == Int16(c \div TicksPerFrame)

\* nextFrame = activeFrameIdx == end ? start : activeFrameIdx+1, a uint16_t
NextFrame(idx, a) == (IF idx = a.end THEN a.start ELSE idx + 1) % 65536

\* index = i*3+j, a uint16_t
Index(i, j) == (i * 3 + j) % 65536

\* scale * quantized + translation
Decompress(scale, translation, v) ==
  << scale[1] * v.x + translation[1],
     scale[2] * v.y + translation[2],
     scale[3] * v.z + translation[3] >>

Blend_swapped(a, b, lerp) == lerp * a + (TicksPerFrame - lerp) * b

\* oneMinusLerp * a + lerp * b, in 1/TicksPerFrame units
Blend(a, b, lerp) == (TicksPerFrame - lerp) * a + lerp * b

\* the Md2::Vertex computed for corner j of triangle i by the call g: p and n
\* in 1/TicksPerFrame units (n of millionths), st as fractions
GenVertex(g, i, j) ==
  LET tri == TriangleData(i, g.vertexCnt, g.texCoordCnt)
      vertA == FrameVertexData(g.frameA, tri.iPos[j])
      vertB == FrameVertexData(g.frameB, tri.iPos[j])
      normA == sNormals[vertA.n + 1]
      normB == sNormals[vertB.n + 1]
      texCoord == TexCoordData(tri.iSt[j])
      posA == Decompress(FrameScale(g.data, g.frameA),
                         FrameTranslation(g.data, g.frameA), vertA)
      posB == Decompress(FrameScale(g.data, g.frameB),
                         FrameTranslation(g.data, g.frameB), vertB)
  IN  [ p |-> [k \in 1 .. 3 |-> Blend(posA[k], posB[k], g.lerp)],
        n |-> [k \in 1 .. 3 |-> Blend(normA[k], normB[k], g.lerp)],
        st |-> << [num |-> texCoord.s, den |-> g.skinWidth],
                  [num |-> g.skinHeight - texCoord.t, den |-> g.skinHeight] >> ]

\* the corners (numbered i*3+j) whose record the call g stored in slot s; a
\* call has fewer than 2*65536 corners since mTriangleCnt is an int16_t
Writers(g, s) ==
  { k \in {s, s + 65536} : k < 3 * g.triangleCnt /\ Index(k \div 3, k % 3) = s }

\* the slots of the output array the call g wrote
WrittenSlots(g) ==
  IF g.fault \/ g.triangleCnt <= 0 THEN {}
  ELSE IF 3 * g.triangleCnt > 65536 THEN 0 .. 65535
  ELSE 0 .. (3 * g.triangleCnt - 1)

\* the output array after the call g: each written slot holds the record of
\* the last corner stored there
Vertices(g) ==
  [ s \in WrittenSlots(g) |->
      LET k == CHOOSE k \in Writers(g, s) : \A k2 \in Writers(g, s) : k2 <= k
      IN  [ corner |-> << k \div 3, k % 3 >>,
            vertex |-> GenVertex(g, k \div 3, k % 3) ] ]

\* Md2::GenVertices(vertices).  The loop body runs when 0 < mTriangleCnt; it
\* then dereferences mFrames[activeFrameIdx], mFrames[nextFrame], their
\* vertices, mTriangles and mTexCoords: fault records that one of them is
\* null, unallocated, uninitialised or indexed past the mFrameCnt frames.
GenCallAt(cursor) ==
  LET a == Anim(mActiveAnimation)
      idx == ActiveFrameIdx(cursor)
      nxt == NextFrame(idx, a)
      fault == /\ 0 < mTriangleCnt
               /\ \/ ~mTriangles \/ ~mTexCoords \/ ~mFrames
                  \/ frameVertices # "alloc" \/ mData = "uninit"
                  \/ idx >= mFrameCnt \/ nxt >= mFrameCnt
  IN  [ fault |-> fault, triangleCnt |-> mTriangleCnt,
        frameA |-> idx, frameB |-> nxt,
        lerp |-> Lerp(cursor), data |-> mData,
        vertexCnt |-> mVertexCnt, texCoordCnt |-> mTexCoordCnt,
        skinWidth |-> mSkinWidth, skinHeight |-> mSkinHeight ]

\* a call of Md2::GenVertices by itself
GenVertices ==
  /\ genCall' = GenCallAt(mActiveFrame)
  /\ History("GenVertices", 0)
  /\ UNCHANGED << modelVars, loadVars, playVars, heapVars, streamVars >>

\* ------------------------------------------------------------------------
\* main.cpp: streaming of the vertices in on_update
\* ------------------------------------------------------------------------
STREAM_BUFFER_CAPACITY == 8192 * 1024

\* sizeof(Md2::Vertex): eight floats
SizeofVertex == 32

RECURSIVE PowerOfTwoFrom(_, _)
PowerOfTwoFrom(p, n) == IF p >= n THEN p ELSE PowerOfTwoFrom(2 * p, n)

\* fw::next_power_of_two: the bits below the highest set bit of number-1 are
\* filled and one is added
next_power_of_two(number) ==
  IF number = 0 THEN 1 ELSE PowerOfTwoFrom(1, number)

\* streamDataSize.  The GLuint arithmetic of on_update does not wrap: a
\* loaded model has 0 < TriangleCount <= 32767, so that the byte count is at
\* most 3145632, the size at most 4194304 and streamOffset + size at most
\* 12582912.
StreamDataSize == next_power_of_two(TriangleCount * 3 * SizeofVertex)

MustOrphan_late(offset, size) == offset > STREAM_BUFFER_CAPACITY

\* if(streamOffset + streamDataSize > STREAM_BUFFER_CAPACITY)
MustOrphan(offset, size) == offset + size > STREAM_BUFFER_CAPACITY

\* two byte ranges <<offset, size>> share a byte
Overlap(r, q) == r[1] < q[1] + q[2] /\ q[1] < r[1] + r[2]

\* the cursors Md2::Update(dt) may leave
UpdateResults(dt) ==
  LET a == Anim(mActiveAnimation)
      c == Advanced(mActiveFrame, mSpeed, dt, a)
  IN  IF Paused(mIsPlaying) THEN {mActiveFrame}
      ELSE IF ~MustWrap(c, a) THEN {c}
      ELSE {WrapModfFirst(c, a), WrapFmodFirst(c, a)}

\* the streaming block of on_update: orphan if full, map the range at
\* streamOffset, GenVertices into it, unmap; advance tells whether
\* streamOffset is then incremented.  It yields the new values of the
\* stream variables except drawn.
Streamed(advance) ==
  LET size == StreamDataSize
      orphan == MustOrphan(streamOffset, size)
      offset == IF orphan THEN 0 ELSE streamOffset
      before == IF orphan THEN {} ELSE mapped
  IN  [ streamOffset |-> IF advance THEN offset + size ELSE offset,
        drawOffset |-> offset \div SizeofVertex,
        mapped |-> before \cup {<<offset, size>>},
        overlapped |-> \/ ~orphan /\ overlapped
                       \/ \E r \in before : Overlap(r, <<offset, size>>),
        lastRange |-> <<offset, size>>,
        orphaned |-> orphan ]

\* on_update of the first program: Update, stream, draw at streamOffset
OnUpdateFirst(dt) ==
  LET st == Streamed(FALSE) IN
  /\ loadResult = "Ok"
  /\ mActiveFrame' \in UpdateResults(dt)
  /\ genCall' = GenCallAt(mActiveFrame')
  /\ streamOffset' = st.streamOffset
  /\ mapped' = st.mapped /\ overlapped' = st.overlapped
  /\ lastRange' = st.lastRange /\ orphaned' = st.orphaned
  /\ drawn' = << (st.streamOffset \div SizeofVertex) * SizeofVertex,
                 TriangleCount * 3 * SizeofVertex >>
  /\ History("on_update", dt)
  /\ UNCHANGED << modelVars, loadVars, heapVars, drawOffset,
                  mActiveAnimation, mSpeed, mIsPlaying >>

\* on_update of the second program: Update, stream when playing, draw at
\* drawOffset
OnUpdateSecond(dt) ==
  LET st == Streamed(TRUE) IN
  /\ loadResult = "Ok"
  /\ mActiveFrame' \in UpdateResults(dt)
  /\ IF IsPlaying
       THEN /\ genCall' = GenCallAt(mActiveFrame')
            /\ streamOffset' = st.streamOffset /\ drawOffset' = st.drawOffset
            /\ mapped' = st.mapped /\ overlapped' = st.overlapped
            /\ lastRange' = st.lastRange /\ orphaned' = st.orphaned
       ELSE /\ genCall' = NoGen
            /\ orphaned' = FALSE
            /\ UNCHANGED << streamOffset, drawOffset, mapped, overlapped,
                            lastRange >>
  /\ drawn' = << drawOffset' * SizeofVertex, TriangleCount * 3 * SizeofVertex >>
  /\ History("on_update", dt)
  /\ UNCHANGED << modelVars, loadVars, heapVars,
                  mActiveAnimation, mSpeed, mIsPlaying >>

\* on_init: md2 = new Md2(file); the program goes on when the Load succeeds
StreamTriangleCnts == {4096, 32767}
OnInit ==
  /\ lastOp = "None"
  /\ \E n \in StreamTriangleCnts :
       Load("ok", [GoodHeader EXCEPT !.triangleCnt = n])

\* the frame times on_update passes to Update, in ticks
FrameDts == {0, 1}
OnUpdateFirstFrame == \E dt \in FrameDts : OnUpdateFirst(dt)
OnUpdateSecondFrame == \E dt \in FrameDts : OnUpdateSecond(dt)

\* play_next_animation and play_pause of the tweak bar, once the model is
\* loaded
PlayNextAnimation == loadResult = "Ok" /\ NextAnimation
PlayPause == loadResult = "Ok" /\ IF IsPlaying THEN Pause ELSE Play

\* ------------------------------------------------------------------------
\* Specifications
\* ------------------------------------------------------------------------
NextPlay == Play \/ Pause \/ NextAnimation \/ PreviousAnimation \/ Update
SpecPlay == Init /\ [][NextPlay]_vars

NextLoad == LoadMissing \/ LoadShort \/ LoadFile
SpecLoad == Init /\ [][NextLoad]_vars

\* the files loaded between playback calls: one that Load accepts and one
\* that it refuses after the counts were stored
SomeHeaders == { GoodHeader, [GoodHeader EXCEPT !.triangleCnt = 0] }
LoadSome == \E h \in SomeHeaders : Load("ok", h)

Next == NextPlay \/ LoadMissing \/ LoadSome
Spec == Init /\ [][Next]_vars

\* the files loaded before GenVertices: small meshes, with both contents
MeshHeaders ==
  { GoodHeader, [GoodHeader EXCEPT !.triangleCnt = 2, !.vertexCnt = 4] }
LoadMesh == \E h \in MeshHeaders : \E d \in DataValues : LoadData("ok", h, d)

NextGen == LoadMesh \/ NextPlay \/ GenVertices
SpecGen == Init /\ [][NextGen]_vars

\* meshes of many triangles
LargeTriangleCnts == {21845, 21846, 32767}
LoadLarge ==
  \E n \in LargeTriangleCnts : Load("ok", [GoodHeader EXCEPT !.triangleCnt = n])

\* the life of an object: Load calls, then the destructor, then nothing
Alive == lastOp # "~Md2"
LoadMissingAlive == Alive /\ LoadMissing
LoadShortAlive == Alive /\ LoadShort
LoadFileAlive == Alive /\ LoadFile
DestroyAlive == Alive /\ Destroy

NextLife == LoadMissingAlive \/ LoadShortAlive \/ LoadFileAlive \/ DestroyAlive
SpecLife == Init /\ [][NextLife]_vars

\* the first and the second program of main.cpp
NextStreamFirst == OnInit \/ OnUpdateFirstFrame \/ PlayNextAnimation
SpecStreamFirst == Init /\ [][NextStreamFirst]_vars

NextStreamSecond ==
  OnInit \/ OnUpdateSecondFrame \/ PlayNextAnimation \/ PlayPause
SpecStreamSecond == Init /\ [][NextStreamSecond]_vars

\* GenVertices on objects whose Load failed: one file per check of Load
RejectedHeaders ==
  { [GoodHeader EXCEPT !.ident = 0],
    [GoodHeader EXCEPT !.version = 7],
    [GoodHeader EXCEPT !.triangleCnt = 0],
    [GoodHeader EXCEPT !.frameCnt = 199],
    [GoodHeader EXCEPT !.vertexCnt = 0] }
LoadRejected == \E h \in RejectedHeaders : Load("ok", h)

NextGenRejected ==
  LoadMissing \/ LoadRejected \/ NextAnimation \/ PreviousAnimation \/ GenVertices
SpecGenRejected == Init /\ [][NextGenRejected]_vars

NextGenLarge == LoadLarge \/ NextAnimation \/ PreviousAnimation \/ GenVertices
SpecGenLarge == Init /\ [][NextGenLarge]_vars

\* ------------------------------------------------------------------------
\* Properties
\* ------------------------------------------------------------------------
\* integer part of the frame cursor
CursorFrame == mActiveFrame \div TicksPerFrame

Opened == stream \in {"ok", "short"}

Failures == { "NotFound", "BadIdent", "BadVersion", "BadTriangleData",
              "BadFrameData", "BadVertexData" }

\* C1 (as stated): while playing, after Update calls the integer part of the
\* frame cursor lies in [start, end) of the active sequence.
C1_CursorBelowEnd ==
  (mIsPlaying /\ lastOp = "Update") =>
     /\ Anim(mActiveAnimation).start <= CursorFrame
     /\ CursorFrame < Anim(mActiveAnimation).end

\* C1 (amended): in every reachable playback state the integer part of the
\* frame cursor lies in [start, end + 1] of the active sequence: the wrap of
\* Update maps a cursor in [end, end + 1) to itself and, when the argument of
\* fmod is read before modf stores the integer part, adds the fraction twice.
C1_CursorWithinWrap ==
  /\ Anim(mActiveAnimation).start <= CursorFrame
  /\ CursorFrame <= Anim(mActiveAnimation).end + 1

\* after two Update calls of a playing model the cursor stands inside the
\* end frame of the active sequence, between two frames
C1_Witness ==
  /\ mIsPlaying /\ lastOp = "Update" /\ prevOp = "Update"
  /\ CursorFrame = Anim(mActiveAnimation).end
  /\ mActiveFrame % TicksPerFrame # 0

\* C2 (as stated): NextAnimation advances the index by 1 and wraps to entry 0
\* only from the last entry of the table, index 20 (BOOM).
C2_NextWrapsAtTableEnd ==
  [][lastOp' = "NextAnimation" =>
       mActiveAnimation' = IF mActiveAnimation = 20 THEN 0
                           ELSE mActiveAnimation + 1]_vars

\* C2 (amended): NextAnimation advances the index by 1 and wraps to entry 0
\* from index 19, the entry before BOOM; the index never becomes 20, so that
\* repeated calls visit the entries 0..19 and never BOOM.
C2_NextWrapsBeforeBoom ==
  /\ [][lastOp' = "NextAnimation" =>
          mActiveAnimation' = IF mActiveAnimation = 19 THEN 0
                              ELSE mActiveAnimation + 1]_vars
  /\ [](mActiveAnimation \in 0 .. 19)

\* NextAnimation has wrapped from entry 19 to entry 0
C2_Witness ==
  lastOp = "NextAnimation" /\ anim1 = 19 /\ mActiveAnimation = 0

\* C3 (as stated): PreviousAnimation decrements the index by 1 and wraps from
\* index 0 to the last entry of the table, index 20 (BOOM).
C3_PreviousWrapsToTableEnd ==
  [][lastOp' = "PreviousAnimation" =>
       mActiveAnimation' = IF mActiveAnimation = 0 THEN 20
                           ELSE mActiveAnimation - 1]_vars

\* C3 (amended): PreviousAnimation decrements the index by 1 and wraps from
\* index 0 to index 19, the entry before BOOM, symmetrically to NextAnimation.
C3_PreviousWrapsBeforeBoom ==
  [][lastOp' = "PreviousAnimation" =>
       mActiveAnimation' = IF mActiveAnimation = 0 THEN 19
                           ELSE mActiveAnimation - 1]_vars

\* PreviousAnimation has wrapped from entry 0
C3_Witness ==
  lastOp = "PreviousAnimation" /\ anim1 = 0 /\ mActiveAnimation = 19

\* C4: NextAnimation then PreviousAnimation, and PreviousAnimation then
\* NextAnimation, leave the active sequence index at its value before the two
\* calls and the frame cursor at that sequence's start frame.
C4_NextPreviousRoundTrip ==
  ( \/ (prevOp = "NextAnimation" /\ lastOp = "PreviousAnimation")
    \/ (prevOp = "PreviousAnimation" /\ lastOp = "NextAnimation") ) =>
     /\ mActiveAnimation = anim2
     /\ mActiveFrame = Anim(anim2).start * TicksPerFrame

\* the round trip over the wrap: from entry 19 to entry 0 and back
C4_Witness ==
  /\ prevOp = "NextAnimation" /\ lastOp = "PreviousAnimation"
  /\ anim2 = 19 /\ anim1 = 0 /\ mActiveAnimation = 19

\* C5: a failed Load leaves the object in the cleared state.
C5_FailedLoadCleared ==
  loadResult \in Failures =>
     /\ ~mSkins /\ ~mTexCoords /\ ~mTriangles /\ ~mFrames
     /\ mSkinCnt = -1 /\ mTexCoordCnt = -1 /\ mTriangleCnt = -1
     /\ mFrameCnt = -1 /\ mVertexCnt = -1
     /\ mSkinWidth = -1 /\ mSkinHeight = -1

\* C6 (as stated): with ident, version and triangle count valid, Load passes
\* the frame-count check exactly when the header frame count is 199.
C6_FrameCountOfTable ==
  (Opened /\ header.ident = 844121161 /\ header.version = 8
          /\ loadResult # "BadTriangleData") =>
     (loadResult = "BadFrameData" <=> header.frameCnt # 199)

\* C6 (amended): once the ident, version and triangle checks have passed,
\* Load passes the frame-count check exactly when the header frame count, as
\* stored in the 16-bit member (its low 16 bits), is 198; every other frame
\* count fails with BadFrameData.
C6_FrameCountIs198 ==
  (Opened /\ header.ident = 844121161 /\ header.version = 8
          /\ loadResult # "BadTriangleData") =>
     (loadResult = "BadFrameData" <=> header.frameCnt % 65536 # 198)

\* a header with the 199 frames of the whole table is refused
C6_Witness ==
  /\ stream = "ok" /\ header.frameCnt = 199 /\ header.triangleCnt = 1
  /\ loadResult = "BadFrameData"

\* C7: a stream whose ident differs from 'I','D','P','2' packed little endian
\* yields BadIdent, whatever the other header fields.
C7_BadIdent ==
  (Opened /\ header.ident # 844121161) => loadResult = "BadIdent"

\* a wrong ident in a header with another fault
C7_Witness ==
  /\ stream = "ok" /\ header.ident # 844121161 /\ header.version # 8
  /\ loadResult = "BadIdent"

\* C8 (as stated): a stream whose version is not 8 yields BadVersion,
\* whatever the other header fields, the ident included.
C8_BadVersionAlways ==
  (Opened /\ header.version # 8) => loadResult = "BadVersion"

\* C8 (amended): a stream with a valid ident whose version is not 8 yields
\* BadVersion, whatever the other header fields; with an invalid ident
\* BadIdent is reported first.
C8_BadVersionAfterIdent ==
  /\ (Opened /\ header.ident = 844121161 /\ header.version # 8)
        => loadResult = "BadVersion"
  /\ (Opened /\ header.ident # 844121161 /\ header.version # 8)
        => loadResult = "BadIdent"

\* a wrong version in a header with a valid ident and another fault
C8_Witness ==
  /\ stream = "ok" /\ header.ident = 844121161 /\ header.version # 8
  /\ header.triangleCnt = 0
  /\ loadResult = "BadVersion"

\* C9: with valid ident and version, Load fails with BadTriangleData exactly
\* when the 32-bit header triangle count is <= 0.
C9_TriangleCheck ==
  (Opened /\ header.ident = 844121161 /\ header.version = 8) =>
     (loadResult = "BadTriangleData" <=> header.triangleCnt <= 0)

\* C10: a Load that passes the ident, version, triangle and frame checks
\* fails with BadVertexData exactly when the header vertex count is <= 0.
C10_VertexCheck ==
  loadResult \in {"BadVertexData", "Ok"} =>
     (loadResult = "BadVertexData" <=> header.vertexCnt <= 0)

\* C11: after a successful Load the accessors TriangleCount, VertexCount,
\* FrameCount, SkinCount and TexCoordCount return exactly the values of the
\* 32-bit header fields.
C11_AccessorsEqualHeader ==
  loadResult = "Ok" =>
     /\ TriangleCount = header.triangleCnt
     /\ VertexCount = header.vertexCnt
     /\ FrameCountOfModel = header.frameCnt
     /\ SkinCount = header.skinCnt
     /\ TexCoordCount = header.texCoordCnt

\* C12: Load fails with NotFound, and with no other error, whenever the file
\* cannot be opened or the header cannot be read from it.
C12_NotFoundWhenUnreadable ==
  stream \in {"missing", "short"} => loadResult = "NotFound"

\* C13: Update(0) never changes the frame cursor, in every reachable playback
\* state, the wrap branch included.
C13_UpdateZeroKeepsCursor ==
  [][(lastOp' = "Update" /\ lastDt' = 0) => mActiveFrame' = mActiveFrame]_vars

\* C14: while the playing flag is false, Update(dt) changes neither the
\* cursor, the active sequence index, the speed nor the playing flag.
C14_UpdatePausedNoOp ==
  [][(lastOp' = "Update" /\ ~mIsPlaying) =>
       UNCHANGED << mActiveFrame, mActiveAnimation, mSpeed, mIsPlaying >>]_vars

\* a paused, loaded model, its cursor inside a sequence, has been given a
\* large dt
C14_Witness ==
  /\ lastOp = "Update" /\ lastDt = LargeDt /\ ~mIsPlaying
  /\ loadResult = "Ok"
  /\ mActiveFrame # Anim(mActiveAnimation).start * TicksPerFrame

\* C15: Play sets the playing flag, Pause clears it, both leave the cursor,
\* the active sequence index, the speed and the loaded model unchanged, and
\* IsPlaying returns the flag.
C15_PlayPause ==
  [][ /\ lastOp' = "Play" =>
           /\ IsPlaying' = TRUE
           /\ UNCHANGED << mActiveFrame, mActiveAnimation, mSpeed, modelVars >>
      /\ lastOp' = "Pause" =>
           /\ IsPlaying' = FALSE
           /\ UNCHANGED << mActiveFrame, mActiveAnimation, mSpeed, modelVars >>
    ]_vars

\* a loaded model that was playing has been paused inside a sequence
C15_Witness ==
  /\ lastOp = "Pause" /\ prevOp = "Update" /\ ~mIsPlaying
  /\ loadResult = "Ok"
  /\ mActiveFrame # Anim(mActiveAnimation).start * TicksPerFrame

\* the GenVertices calls whose loop ran on frames the model holds
Generated == lastOp = "GenVertices" /\ 0 < genCall.triangleCnt /\ ~genCall.fault

\* C16: after a GenVertices call at a cursor that is exactly a frame index
\* (lerp = 0), every record written holds the position scale*quantized +
\* translation and the normal-table entry of the vertex of that frame alone;
\* with scale (1,1,1) and translation (0,0,0) the position is the raw
\* quantized bytes.  (Values are in 1/TicksPerFrame units.)
C16_IntegerCursorIsFrameA ==
  (Generated /\ genCall.lerp = 0) =>
    \A s \in WrittenSlots(genCall) :
      LET rec == Vertices(genCall)[s]
          tri == TriangleData(rec.corner[1], genCall.vertexCnt,
                              genCall.texCoordCnt)
          v == FrameVertexData(genCall.frameA, tri.iPos[rec.corner[2]])
          scale == FrameScale(genCall.data, genCall.frameA)
          trans == FrameTranslation(genCall.data, genCall.frameA)
      IN  /\ rec.vertex.p[1] = TicksPerFrame * (scale[1] * v.x + trans[1])
          /\ rec.vertex.p[2] = TicksPerFrame * (scale[2] * v.y + trans[2])
          /\ rec.vertex.p[3] = TicksPerFrame * (scale[3] * v.z + trans[3])
          /\ \A k \in 1 .. 3 :
               rec.vertex.n[k] = TicksPerFrame * sNormals[v.n + 1][k]
          /\ genCall.data = "unit" =>
               /\ rec.vertex.p[1] = TicksPerFrame * v.x
               /\ rec.vertex.p[2] = TicksPerFrame * v.y
               /\ rec.vertex.p[3] = TicksPerFrame * v.z

\* a GenVertices call at an integer cursor past frame 0, on a mesh of two
\* triangles with scaled frames, whose next frame holds other positions and
\* normals than the frame of the cursor
C16_Witness ==
  /\ Generated /\ genCall.lerp = 0
  /\ genCall.triangleCnt = 2 /\ genCall.data = "scaled"
  /\ genCall.frameA > 0 /\ genCall.frameB # genCall.frameA
  /\ \A v \in 0 .. 3 :
       LET a == FrameVertexData(genCall.frameA, v)
           b == FrameVertexData(genCall.frameB, v)
       IN  /\ Decompress(FrameScale("scaled", genCall.frameA),
                         FrameTranslation("scaled", genCall.frameA), a)
                # Decompress(FrameScale("scaled", genCall.frameB),
                             FrameTranslation("scaled", genCall.frameB), b)
           /\ sNormals[a.n + 1] # sNormals[b.n + 1]

\* C17: after a GenVertices call on a loaded model, corner j of triangle i
\* is stored in slot i*3+j, so that the slots 0 .. TriangleCount*3-1 are
\* each written once and none is written twice or skipped.
C17_SlotOfCorner ==
  Generated =>
    \A i \in 0 .. (genCall.triangleCnt - 1) : \A j \in 0 .. 2 :
      Index(i, j) = i * 3 + j

\* C18: every successfully loaded model has non-negative FrameCount,
\* VertexCount, TriangleCount, TexCoordCount and SkinCount, with
\* TriangleCount > 0 and VertexCount > 0.
C18_CountsNonNegative ==
  loadResult = "Ok" =>
     /\ FrameCountOfModel >= 0 /\ TexCoordCount >= 0 /\ SkinCount >= 0
     /\ TriangleCount > 0 /\ VertexCount > 0

\* C19: when Update advances the cursor to a value >= end, the new cursor is
\* frac + ((whole - start) mod (end - start + 1)) + start, whole and frac
\* being the integer and fractional parts of the advanced cursor; an advanced
\* cursor < end is kept.
C19_WrapFormula ==
  [][(lastOp' = "Update" /\ mIsPlaying) =>
       LET a == Anim(mActiveAnimation)
           c == mActiveFrame + mSpeed * lastDt' * a.fps
           whole == c \div TicksPerFrame
           frac == c % TicksPerFrame
       IN  mActiveFrame' =
             IF c >= a.end * TicksPerFrame
             THEN frac + ((whole - a.start) % (a.end - a.start + 1)) * TicksPerFrame
                       + a.start * TicksPerFrame
             ELSE c]_vars

\* C20: the cursor produced by the wrap branch of Update is the same whether
\* modf stores the integer part in mActiveFrame before or after the argument
\* of fmod reads mActiveFrame.
C20_WrapOrderIndependent ==
  [][(lastOp' = "Update" /\ mIsPlaying) =>
       LET a == Anim(mActiveAnimation)
           c == mActiveFrame + mSpeed * lastDt' * a.fps
           frac == c % TicksPerFrame
           len == (a.end - a.start + 1) * TicksPerFrame
           modfFirst == frac + ((c - frac - a.start * TicksPerFrame) % len)
                             + a.start * TicksPerFrame
           fmodFirst == frac + ((c - a.start * TicksPerFrame) % len)
                             + a.start * TicksPerFrame
       IN  c >= a.end * TicksPerFrame =>
             (mActiveFrame' = modfFirst /\ mActiveFrame' = fmodFirst)]_vars
\* C21: on a loaded model, whatever playback calls came before, the two
\* frames a GenVertices call reads lie in [start, end] of the active sequence
\* and below the frame count of the model.
C21_FramesReadInRange ==
  (lastOp = "GenVertices" /\ loadResult = "Ok") =>
    LET a == sAnimations[mActiveAnimation + 1] IN
    /\ genCall.frameA \in a.start .. a.end
    /\ genCall.frameB \in a.start .. a.end
    /\ genCall.frameA < mFrameCnt
    /\ genCall.frameB < mFrameCnt

\* C22: on a loaded model, GenVertices blends frame A = floor(cursor) with
\* frame B = start of the active sequence when A is its end frame and A + 1
\* otherwise, and frame B lies in the active sequence.
C22_NextFrameOfSequence ==
  (lastOp = "GenVertices" /\ loadResult = "Ok") =>
    LET a == sAnimations[mActiveAnimation + 1] IN
    /\ genCall.frameA = mActiveFrame \div TicksPerFrame
    /\ genCall.frameB = (IF genCall.frameA = a.end THEN a.start
                         ELSE genCall.frameA + 1)
    /\ genCall.frameB \in a.start .. a.end

\* C23: a NextAnimation or PreviousAnimation call, playing or paused and at
\* any cursor, leaves the cursor on the start frame of the new active
\* sequence with no fractional part, and leaves the playing flag and the
\* speed as they were.
C23_SequenceChangeResetsCursor ==
  [][lastOp' \in {"NextAnimation", "PreviousAnimation"} =>
       /\ mActiveFrame' = sAnimations[mActiveAnimation' + 1].start * TicksPerFrame
       /\ mActiveFrame' % TicksPerFrame = 0
       /\ mIsPlaying' = mIsPlaying
       /\ mSpeed' = mSpeed]_vars

\* a sequence change made while paused, from FLIP to SALUTE (first frame 84)
C23_Witness ==
  /\ lastOp = "NextAnimation" /\ prevOp = "Pause"
  /\ ~mIsPlaying
  /\ anim1 = 7 /\ mActiveAnimation = 8
  /\ mActiveFrame = 84 * TicksPerFrame

\* C24: Load reports the error of the first check that fails in the order
\* open, ident, version, triangle count, frame count, vertex count; the skin
\* count and the texcoord count play no part.
C24_FirstFailingCheck ==
  lastOp = "Load" =>
    loadResult =
      IF stream = "missing" THEN "NotFound"
      ELSE IF header.ident # 844121161 THEN "BadIdent"
      ELSE IF header.version # 8 THEN "BadVersion"
      ELSE IF header.triangleCnt <= 0 THEN "BadTriangleData"
      ELSE IF header.frameCnt % 65536 # 198 THEN "BadFrameData"
      ELSE IF header.vertexCnt <= 0 THEN "BadVertexData"
      ELSE "Ok"

\* C25: after a Load on an object that held a loaded model, whether the
\* Load succeeds or fails, every array of the previous model has been
\* released, by valid releases, and the arrays and counts of the object are
\* those of the new stream or the cleared ones.
C25_ReloadReleasesPrevious ==
  (lastOp = "Load" /\ wasLoaded) =>
    /\ \A b \in live : b[2] = "new"
    /\ invalidRelease = {}
    /\ loadResult \in {"NotFound", "BadIdent", "BadVersion"} =>
         /\ live = {}
         /\ ~mSkins /\ ~mTexCoords /\ ~mTriangles /\ ~mFrames
         /\ mSkinCnt = -1 /\ mTexCoordCnt = -1 /\ mTriangleCnt = -1
         /\ mFrameCnt = -1 /\ mVertexCnt = -1
    /\ mSkinCnt \in {-1, Int16(header.skinCnt)}
    /\ mTexCoordCnt \in {-1, Int16(header.texCoordCnt)}
    /\ mTriangleCnt \in {-1, Int16(header.triangleCnt)}
    /\ mFrameCnt \in {-1, Int16(header.frameCnt)}
    /\ mVertexCnt \in {-1, Int16(header.vertexCnt)}

\* a Load of a missing file on an object that held a loaded model
C25_Witness ==
  /\ lastOp = "Load" /\ wasLoaded
  /\ loadResult = "NotFound"

\* C26: every array released by _Clear, in a Load or in the destructor, was
\* allocated and not yet released; in particular no vertices pointer of a
\* frame is released before it was assigned.
C26_ReleasesAreValid == invalidRelease = {}

\* C27: on an object never loaded, or whose last Load failed, a GenVertices
\* call runs its loop not at all: it writes no record and reads no triangle,
\* texcoord, frame or vertex array.
C27_NoModelNoAccess ==
  (lastOp = "GenVertices" /\ loadResult # "Ok") =>
    /\ ~genCall.fault
    /\ genCall.triangleCnt <= 0

\* C28: a Load, successful or failed, leaves the active sequence, the frame
\* cursor, the speed and the playing flag as they were.
C28_LoadKeepsPlayback ==
  [][lastOp' = "Load" =>
       /\ mActiveAnimation' = mActiveAnimation
       /\ mActiveFrame' = mActiveFrame
       /\ mSpeed' = mSpeed
       /\ mIsPlaying' = mIsPlaying]_vars

\* a successful re-load made while paused in sequence 3 at a fractional cursor
C28_Witness ==
  /\ lastOp = "Load" /\ wasLoaded /\ loadResult = "Ok"
  /\ mActiveAnimation = 3
  /\ mActiveFrame % TicksPerFrame # 0
  /\ ~mIsPlaying

\* C29: every range on_update maps for writing ends within the 8388608
\* bytes of the stream buffer; its size is the power of two next to the
\* TriangleCount*3*32 bytes of the vertices; and on_update orphans the buffer
\* and maps at offset 0 exactly when the range at streamOffset would not fit.
C29_MappedRangeFits ==
  [][(lastOp' = "on_update" /\ mIsPlaying) =>
       LET size == lastRange'[2]
           bytes == mTriangleCnt * 3 * 32
       IN  /\ lastRange'[1] + size <= 8388608
           /\ \E k \in 0 .. 23 : size = 2 ^ k
           /\ bytes <= size /\ size < 2 * bytes
           /\ orphaned' <=> (streamOffset + size > 8388608)
           /\ lastRange'[1] = (IF orphaned' THEN 0 ELSE streamOffset)]_vars

\* the frame, playing a model of 4096 triangles, that finds the buffer full:
\* the buffer is orphaned and the 524288 bytes are mapped at offset 0
C29_Witness ==
  /\ lastOp = "on_update" /\ orphaned
  /\ mTriangleCnt = 4096
  /\ lastRange = <<0, 524288>>
  /\ streamOffset = 524288

\* C30: between two orphanings no range of the stream buffer is mapped for
\* writing twice, each range mapped being disjoint from those mapped since
\* the last orphaning, and the draw call of a frame that streamed reads the
\* range mapped last.
C30_NoRangeMappedTwice ==
  /\ ~overlapped
  /\ (lastOp = "on_update" /\ genCall # NoGen) =>
       /\ drawn[1] = lastRange[1]
       /\ drawn[2] <= lastRange[2]

====
